---- MODULE Spec2Model ----
(***************************************************************************)
(* The circuit breaker of api-gateway-v2 (src/README.md, lines 633-748):   *)
(* one CircuitBreaker shared by concurrent request handlers, each running  *)
(* Execute(fn).  The breaker's fields are protected by cb.mu; fn() itself  *)
(* runs between the two critical sections of Execute, outside the lock.    *)
(* Time is the wall clock read by time.Since / time.Now, in seconds.       *)
(***************************************************************************)
EXTENDS Integers, Sequences, FiniteSets

\* ---------------------------------------------------------------- bounds
\* The clock runs from 0 to MaxTime, in steps of one second.
MaxTime == 24
\* In recovery runs the operation fails only before HealAt.
HealAt == 2
\* Sequential runs log at most MaxHist completed Execute calls.
MaxHist == 7
\* The time t at which the third failing call of the scenario is recorded.
ScenarioT == 3
\* In gateway runs the clock stops at GatewayMaxTime, past one cooldown.
GatewayMaxTime == 12

\* Goroutines (one per inbound request) calling into the one breaker.
Callers == {1, 2}

\* ------------------------------------------------------ program constants
\* type State int; const ( StateClosed State = iota; StateOpen; StateHalfOpen )
StateClosed == 0
StateOpen == 1
StateHalfOpen == 2
States == {StateClosed, StateOpen, StateHalfOpen}

\* func (s State) String() string
StateString(s) ==
  CASE s = StateClosed -> "CLOSED"
    [] s = StateOpen -> "OPEN"
    [] s = StateHalfOpen -> "HALF-OPEN"
    [] OTHER -> "UNKNOWN"

\* NewCircuitBreaker's configuration (seconds).
maxFailures == 3
timeout == 10
halfOpenTimeout == 5
\* The literal 2 of recordSuccess: successes in HALF-OPEN needed to close.
requiredProbeSuccesses == 2

\* Error values.  nil is success; the operation fails with one of OpErrors;
\* the breaker refuses with fmt.Errorf("circuit breaker is OPEN").
nil == "nil"
OpErrors == {"timeout", "status 500"}
CircuitOpenError == "circuit breaker is OPEN"
\* Execute has not returned yet.
NoResult == "none"

VARIABLES
  cb,            \* the breaker: state, failureCount, successCount, lastFailureTime
  mu,            \* cb.mu: 0 when free, else the caller holding it
  now,           \* the wall clock
  pc,            \* pc[c]: where caller c is inside Execute
  currentState,  \* Execute's local currentState
  err,           \* Execute's local err, the result of fn()
  invoked,       \* how many times this Execute call has invoked fn
  result,        \* what the last Execute call returned to c
  reported,      \* the string last returned by GetState
  hist,          \* log of the completed calls of a sequential run
  product,       \* productDetailsHandler's local product
  recommendations, \* productDetailsHandler's local recommendations
  response       \* what productDetailsHandler last wrote for the request

vars ==
  <<cb, mu, now, pc, currentState, err, invoked, result, reported, hist,
    product, recommendations, response>>

\* No response has been written: status 0 is not an HTTP status.
NoResponse == [status |-> 0]
\* The nil *Product that getProductDetails returns with an error.
NoProduct == "nil"
\* A []Product value: the ids of its products, or the nil slice.
Slice(ids) == [isNil |-> FALSE, items |-> ids]
NilSlice == [isNil |-> TRUE, items |-> <<>>]
\* No step of productDetailsHandler is taken.
NoRequest == UNCHANGED <<product, recommendations, response>>

\* NewCircuitBreaker(): state CLOSED, the counters and lastFailureTime at their
\* zero values.  lastFailureTime is read only while the state is OPEN, which
\* is entered only by recordFailure, which sets it first.
NewCircuitBreaker ==
  [state |-> StateClosed, failureCount |-> 0, successCount |-> 0,
   lastFailureTime |-> 0]

Init ==
  /\ cb = NewCircuitBreaker
  /\ mu = 0
  /\ now = 0
  /\ pc = [c \in Callers |-> "idle"]
  /\ currentState = [c \in Callers |-> StateClosed]
  /\ err = [c \in Callers |-> nil]
  /\ invoked = [c \in Callers |-> 0]
  /\ result = [c \in Callers |-> NoResult]
  /\ reported = ""
  /\ hist = <<>>
  /\ product = [c \in Callers |-> NoProduct]
  /\ recommendations = [c \in Callers |-> NilSlice]
  /\ response = [c \in Callers |-> NoResponse]

\* ------------------------------------------------------- breaker internals

\* time.Since(cb.lastFailureTime) > cb.timeout, evaluated at time t.
cooldownElapsed_atLeast(b, t) == t - b.lastFailureTime >= timeout
cooldownElapsed_halfOpenTimeout(b, t) == t - b.lastFailureTime > halfOpenTimeout
cooldownElapsed_until(b, t) == b.lastFailureTime - t > timeout
cooldownElapsed(b, t) == t - b.lastFailureTime > timeout

\* cb.state = StateHalfOpen; cb.successCount = 0
toHalfOpen_keepCount(b) == [b EXCEPT !.state = StateHalfOpen]
toHalfOpen(b) == [b EXCEPT !.state = StateHalfOpen, !.successCount = 0]

\* func (cb *CircuitBreaker) recordFailure(), run at time t
recordFailure_offByOne(b, t) ==
  LET b1 == [b EXCEPT !.failureCount = @ + 1, !.lastFailureTime = t]
  IN  IF b1.state = StateHalfOpen
        THEN [b1 EXCEPT !.state = StateOpen, !.failureCount = 0]
        ELSE IF b1.failureCount > maxFailures
          THEN [b1 EXCEPT !.state = StateOpen, !.failureCount = 0]
          ELSE b1
recordFailure_thresholdOnly(b, t) ==
  LET b1 == [b EXCEPT !.failureCount = @ + 1, !.lastFailureTime = t]
  IN  IF b1.failureCount >= maxFailures
        THEN [b1 EXCEPT !.state = StateOpen, !.failureCount = 0]
        ELSE b1
recordFailure_ignoredWhenOpen(b, t) ==
  LET b1 == [b EXCEPT !.failureCount = @ + 1, !.lastFailureTime = t]
  IN  IF b.state = StateOpen
        THEN b
        ELSE IF b1.state = StateHalfOpen
          THEN [b1 EXCEPT !.state = StateOpen, !.failureCount = 0]
          ELSE IF b1.failureCount >= maxFailures
            THEN [b1 EXCEPT !.state = StateOpen, !.failureCount = 0]
            ELSE b1
recordFailure_keepCountOnTrip(b, t) ==
  LET b1 == [b EXCEPT !.failureCount = @ + 1, !.lastFailureTime = t]
  IN  IF b1.state = StateHalfOpen
        THEN [b1 EXCEPT !.state = StateOpen, !.failureCount = 0]
        ELSE IF b1.failureCount >= maxFailures
          THEN [b1 EXCEPT !.state = StateOpen]
          ELSE b1
recordFailure(b, t) ==
  LET b1 == [b EXCEPT !.failureCount = @ + 1, !.lastFailureTime = t]
  IN  IF b1.state = StateHalfOpen
        THEN [b1 EXCEPT !.state = StateOpen, !.failureCount = 0]
        ELSE IF b1.failureCount >= maxFailures
          THEN [b1 EXCEPT !.state = StateOpen, !.failureCount = 0]
          ELSE b1

\* func (cb *CircuitBreaker) recordSuccess()
recordSuccess_oneProbe(b) ==
  LET b1 == [b EXCEPT !.failureCount = 0]
  IN  IF b1.state = StateHalfOpen
        THEN LET b2 == [b1 EXCEPT !.successCount = @ + 1]
             IN  IF b2.successCount >= 1
                   THEN [b2 EXCEPT !.state = StateClosed, !.successCount = 0]
                   ELSE b2
        ELSE b1
recordSuccess_keepFailures(b) ==
  IF b.state = StateHalfOpen
    THEN LET b2 == [b EXCEPT !.successCount = @ + 1]
         IN  IF b2.successCount >= requiredProbeSuccesses
               THEN [b2 EXCEPT !.state = StateClosed, !.successCount = 0]
               ELSE b2
    ELSE b
recordSuccess_anyState(b) ==
  LET b1 == [b EXCEPT !.failureCount = 0]
      b2 == [b1 EXCEPT !.successCount = @ + 1]
  IN  IF b2.successCount >= requiredProbeSuccesses
        THEN [b2 EXCEPT !.state = StateClosed, !.successCount = 0]
        ELSE b2
recordSuccess_keepCount(b) ==
  LET b1 == [b EXCEPT !.failureCount = 0]
  IN  IF b1.state = StateHalfOpen
        THEN LET b2 == [b1 EXCEPT !.successCount = @ + 1]
             IN  IF b2.successCount >= requiredProbeSuccesses
                   THEN [b2 EXCEPT !.state = StateClosed]
                   ELSE b2
        ELSE b1
recordSuccess_clearTime(b) ==
  LET b1 == [b EXCEPT !.failureCount = 0]
  IN  IF b1.state = StateHalfOpen
        THEN LET b2 == [b1 EXCEPT !.successCount = @ + 1]
             IN  IF b2.successCount >= requiredProbeSuccesses
                   THEN [b2 EXCEPT !.state = StateClosed, !.successCount = 0,
                                   !.lastFailureTime = 0]
                   ELSE b2
        ELSE b1
recordSuccess(b) ==
  LET b1 == [b EXCEPT !.failureCount = 0]
  IN  IF b1.state = StateHalfOpen
        THEN LET b2 == [b1 EXCEPT !.successCount = @ + 1]
             IN  IF b2.successCount >= requiredProbeSuccesses
                   THEN [b2 EXCEPT !.state = StateClosed, !.successCount = 0]
                   ELSE b2
        ELSE b1

\* The tail of Execute, under the lock: record fn's error e at time t and
\* return it.  (if err != nil { cb.recordFailure(); return err }
\*              cb.recordSuccess(); return nil)
recordOutcome_swallow(b, e, t) ==
  IF e # nil
    THEN [cb |-> recordFailure(b, t), ret |-> nil]
    ELSE [cb |-> recordSuccess(b), ret |-> nil]
recordOutcome(b, e, t) ==
  IF e # nil
    THEN [cb |-> recordFailure(b, t), ret |-> e]
    ELSE [cb |-> recordSuccess(b), ret |-> nil]

\* ---------------------------------------------------------------- Execute

\* cb.mu.Lock() at the top of Execute: a new call starts.
Lock(c) ==
  /\ pc[c] = "idle"
  /\ mu = 0
  /\ mu' = c
  /\ pc' = [pc EXCEPT ![c] = "check"]
  /\ currentState' = [currentState EXCEPT ![c] = StateClosed]
  /\ err' = [err EXCEPT ![c] = nil]
  /\ invoked' = [invoked EXCEPT ![c] = 0]
  /\ result' = [result EXCEPT ![c] = NoResult]
  /\ UNCHANGED <<cb, now, reported>>

Check_noUnlockOnRefuse(c) ==
  /\ pc[c] = "check"
  /\ mu = c
  /\ IF cb.state = StateOpen /\ ~cooldownElapsed(cb, now)
       THEN /\ result' = [result EXCEPT ![c] = CircuitOpenError]
            /\ pc' = [pc EXCEPT ![c] = "idle"]
            /\ UNCHANGED <<cb, currentState, mu>>
       ELSE /\ cb' = IF cb.state = StateOpen THEN toHalfOpen(cb) ELSE cb
            /\ currentState' = [currentState EXCEPT ![c] = cb'.state]
            /\ pc' = [pc EXCEPT ![c] = "gate"]
            /\ mu' = 0
            /\ UNCHANGED result
  /\ UNCHANGED <<now, err, invoked, reported>>

Check_refusalRestartsCooldown(c) ==
  /\ pc[c] = "check"
  /\ mu = c
  /\ mu' = 0
  /\ IF cb.state = StateOpen /\ ~cooldownElapsed(cb, now)
       THEN /\ result' = [result EXCEPT ![c] = CircuitOpenError]
            /\ pc' = [pc EXCEPT ![c] = "idle"]
            /\ cb' = [cb EXCEPT !.lastFailureTime = now]
            /\ UNCHANGED currentState
       ELSE /\ cb' = IF cb.state = StateOpen THEN toHalfOpen(cb) ELSE cb
            /\ currentState' = [currentState EXCEPT ![c] = cb'.state]
            /\ pc' = [pc EXCEPT ![c] = "gate"]
            /\ UNCHANGED result
  /\ UNCHANGED <<now, err, invoked, reported>>

\* The first critical section: the OPEN check, the move to HALF-OPEN or the
\* refusal, the copy of cb.state into currentState, and the unlock.
Check(c) ==
  /\ pc[c] = "check"
  /\ mu = c
  /\ mu' = 0
  /\ IF cb.state = StateOpen /\ ~cooldownElapsed(cb, now)
       THEN /\ result' = [result EXCEPT ![c] = CircuitOpenError]
            /\ pc' = [pc EXCEPT ![c] = "idle"]
            /\ UNCHANGED <<cb, currentState>>
       ELSE /\ cb' = IF cb.state = StateOpen THEN toHalfOpen(cb) ELSE cb
            /\ currentState' = [currentState EXCEPT ![c] = cb'.state]
            /\ pc' = [pc EXCEPT ![c] = "gate"]
            /\ UNCHANGED result
  /\ UNCHANGED <<now, err, invoked, reported>>

\* Outside the lock: fail fast if currentState is OPEN, else call fn().
Invoke(c) ==
  /\ pc[c] = "gate"
  /\ IF currentState[c] = StateOpen
       THEN /\ result' = [result EXCEPT ![c] = CircuitOpenError]
            /\ pc' = [pc EXCEPT ![c] = "idle"]
            /\ UNCHANGED invoked
       ELSE /\ invoked' = [invoked EXCEPT ![c] = @ + 1]
            /\ pc' = [pc EXCEPT ![c] = "running"]
            /\ UNCHANGED result
  /\ UNCHANGED <<cb, mu, now, currentState, err, reported>>

\* fn() returns nil or an error, and Execute takes the lock again.
FnReturn(c) ==
  /\ pc[c] = "running"
  /\ mu = 0
  /\ \E e \in {nil} \cup OpErrors : err' = [err EXCEPT ![c] = e]
  /\ mu' = c
  /\ pc' = [pc EXCEPT ![c] = "record"]
  /\ UNCHANGED <<cb, now, currentState, invoked, result, reported>>

Record_retryOnce(c) ==
  /\ pc[c] = "record"
  /\ mu = c
  /\ mu' = 0
  /\ IF err[c] # nil /\ invoked[c] < 2
       THEN /\ pc' = [pc EXCEPT ![c] = "gate"]
            /\ UNCHANGED <<cb, result>>
       ELSE /\ LET o == recordOutcome(cb, err[c], now)
               IN  /\ cb' = o.cb
                   /\ result' = [result EXCEPT ![c] = o.ret]
            /\ pc' = [pc EXCEPT ![c] = "idle"]
  /\ UNCHANGED <<now, currentState, err, invoked, reported>>

\* The second critical section: record the outcome, return, deferred unlock.
Record(c) ==
  /\ pc[c] = "record"
  /\ mu = c
  /\ LET o == recordOutcome(cb, err[c], now)
     IN  /\ cb' = o.cb
         /\ result' = [result EXCEPT ![c] = o.ret]
  /\ mu' = 0
  /\ pc' = [pc EXCEPT ![c] = "idle"]
  /\ UNCHANGED <<now, currentState, err, invoked, reported>>

GetState_lazy ==
  /\ mu = 0
  /\ cb' = IF cb.state = StateOpen /\ cooldownElapsed(cb, now)
             THEN toHalfOpen(cb) ELSE cb
  /\ reported' = StateString(cb'.state)
  /\ UNCHANGED <<mu, now, pc, currentState, err, invoked, result>>

\* func (cb *CircuitBreaker) GetState() string
GetState ==
  /\ mu = 0
  /\ reported' = StateString(cb.state)
  /\ UNCHANGED <<cb, mu, now, pc, currentState, err, invoked, result>>

Advance_timer(d) ==
  /\ d > 0
  /\ now' = now + d
  /\ cb' = IF cb.state = StateOpen /\ cooldownElapsed(cb, now')
             THEN toHalfOpen(cb) ELSE cb
  /\ UNCHANGED <<mu, pc, currentState, err, invoked, result, reported>>

\* The clock advances by d seconds.
Advance(d) ==
  /\ d > 0
  /\ now' = now + d
  /\ UNCHANGED <<cb, mu, pc, currentState, err, invoked, result, reported>>

Tick ==
  /\ now < MaxTime
  /\ Advance(1)

\* Concurrent callers; the log of sequential runs is not kept.
Next ==
  \/ \E c \in Callers : Lock(c) /\ UNCHANGED hist /\ NoRequest
  \/ \E c \in Callers : Check(c) /\ UNCHANGED hist /\ NoRequest
  \/ \E c \in Callers : Invoke(c) /\ UNCHANGED hist /\ NoRequest
  \/ \E c \in Callers : FnReturn(c) /\ UNCHANGED hist /\ NoRequest
  \/ \E c \in Callers : Record(c) /\ UNCHANGED hist /\ NoRequest
  \/ GetState /\ UNCHANGED hist /\ NoRequest
  \/ Tick /\ UNCHANGED hist /\ NoRequest

Spec == Init /\ [][Next]_vars

\* ------------------------------------------------------- sequential runs
\* No Execute call is in flight.
AllIdle == \A c \in Callers : pc[c] = "idle"

\* When caller c's step returns from Execute, the call is logged: "refused"
\* when fn was not invoked, else "ok" or "fail" by what fn returned.
Logged(c) ==
  hist' = IF pc[c] # "idle" /\ pc'[c] = "idle"
            THEN Append(hist, IF invoked'[c] = 0 THEN "refused"
                              ELSE IF err'[c] = nil THEN "ok" ELSE "fail")
            ELSE hist

\* Sequential calls: one goroutine makes one Execute call after the other.
\* The clock is free to advance at any point, also during a call.
SeqCallers == {1}

SeqNext ==
  \/ \E c \in SeqCallers :
        AllIdle /\ Len(hist) < MaxHist /\ Lock(c) /\ UNCHANGED hist /\ NoRequest
  \/ \E c \in SeqCallers : Check(c) /\ Logged(c) /\ NoRequest
  \/ \E c \in SeqCallers : Invoke(c) /\ Logged(c) /\ NoRequest
  \/ \E c \in SeqCallers : FnReturn(c) /\ UNCHANGED hist /\ NoRequest
  \/ \E c \in SeqCallers : Record(c) /\ Logged(c) /\ NoRequest
  \/ GetState /\ UNCHANGED hist /\ NoRequest
  \/ Tick /\ UNCHANGED hist /\ NoRequest

SeqSpec == Init /\ [][SeqNext]_vars

\* The scenario's calls: the k-th call is made, and completes, at Script[k].
\* Three calls ending at t, then calls at t+5, t+11, t+21, t+22 and t+23.
Script ==
  <<ScenarioT - 2, ScenarioT - 1, ScenarioT, ScenarioT + 5, ScenarioT + 11,
    ScenarioT + 21, ScenarioT + 22, ScenarioT + 23>>

ScenarioNext ==
  \/ \E c \in SeqCallers :
        /\ AllIdle
        /\ Len(hist) < Len(Script)
        /\ now = Script[Len(hist) + 1]
        /\ Lock(c)
        /\ UNCHANGED hist /\ NoRequest
  \/ \E c \in SeqCallers : Check(c) /\ Logged(c) /\ NoRequest
  \/ \E c \in SeqCallers : Invoke(c) /\ Logged(c) /\ NoRequest
  \/ \E c \in SeqCallers : FnReturn(c) /\ UNCHANGED hist /\ NoRequest
  \/ \E c \in SeqCallers : Record(c) /\ Logged(c) /\ NoRequest
  \/ GetState /\ UNCHANGED hist /\ NoRequest
  \/ /\ AllIdle
     /\ Len(hist) < Len(Script)
     /\ now < Script[Len(hist) + 1]
     /\ Advance(Script[Len(hist) + 1] - now)
     /\ UNCHANGED hist /\ NoRequest

ScenarioSpec == Init /\ [][ScenarioNext]_vars

\* ---------------------------------------------------------- recovery runs
\* The downstream service recovers at HealAt: from then on fn() returns nil.
HealFnReturn(c) ==
  /\ FnReturn(c)
  /\ now >= HealAt => err'[c] = nil

\* The clock keeps running as long as the breaker can still read a new
\* answer from it: until the service has recovered and the cooldown since
\* lastFailureTime has elapsed.
HealTick ==
  /\ now < HealAt \/ now - cb.lastFailureTime <= timeout
  /\ Advance(1)

\* Some caller takes a step of Execute.
HealStep ==
  \E c \in Callers :
    Lock(c) \/ Check(c) \/ Invoke(c) \/ HealFnReturn(c) \/ Record(c)

HealNext ==
  \/ \E c \in Callers : Lock(c) /\ UNCHANGED hist /\ NoRequest
  \/ \E c \in Callers : Check(c) /\ UNCHANGED hist /\ NoRequest
  \/ \E c \in Callers : Invoke(c) /\ UNCHANGED hist /\ NoRequest
  \/ \E c \in Callers : HealFnReturn(c) /\ UNCHANGED hist /\ NoRequest
  \/ \E c \in Callers : Record(c) /\ UNCHANGED hist /\ NoRequest
  \/ HealTick /\ UNCHANGED hist /\ NoRequest

\* Time keeps advancing and Execute calls keep being made and served.
HealSpec ==
  /\ Init
  /\ [][HealNext]_vars
  /\ WF_vars(HealTick /\ UNCHANGED hist /\ NoRequest)
  /\ WF_vars(HealStep /\ UNCHANGED hist /\ NoRequest)

\* ------------------------------------------------------- gateway requests
\* The keys of the product service's products map.
Products == {"1", "2", "3", "4", "5"}

\* The ids requested: none, two products of the catalogue, an unknown one.
RequestIDs == {"", "1", "2", "9"}

\* getProductDetails(id): the product when the product service answers
\* 200, which it does for the ids of its map; else nil and an error.
getProductDetails(id, up) == IF up /\ id \in Products THEN id ELSE NoProduct

\* What the recommendations service answers for a product id.
Recommended(id) ==
  CASE id = "1" -> <<"3", "2">>
    [] id = "2" -> <<"1", "4">>
    [] id = "3" -> <<"1", "2">>
    [] id = "4" -> <<"1", "5">>
    [] id = "5" -> <<"4", "1">>
    [] OTHER -> <<>>

\* func getFallbackRecommendations() []Product: return []Product{}
getFallbackRecommendations == Slice(<<>>)

\* The handler's answer once Execute has returned e with the closure having
\* left recs in recommendations.  The Timestamp field is left out: nothing
\* reads it.
handlerResponse_failRequest(p, e, recs) ==
  IF e # nil
    THEN [status |-> 500]
    ELSE [status |-> 200, product |-> p, recommendations |-> recs,
          degradedMode |-> FALSE]

handlerResponse(p, e, recs) ==
  [status |-> 200, product |-> p,
   recommendations |-> IF e # nil THEN getFallbackRecommendations ELSE recs,
   degradedMode |-> e # nil]

\* The handler of caller c is between its product lookup and its answer.
Handling(c) == product[c] # NoProduct /\ response[c] = NoResponse

\* productDetailsHandler from its start to the top of Execute: 400 without
\* an id, 500 when the product lookup fails, else Execute is entered.
HandlerStart(c) ==
  /\ pc[c] = "idle"
  /\ ~Handling(c)
  /\ \E id \in RequestIDs, up \in BOOLEAN :
       IF id = "" \/ getProductDetails(id, up) = NoProduct
         THEN /\ response' = [response EXCEPT ![c] =
                    [status |-> IF id = "" THEN 400 ELSE 500]]
              /\ product' = [product EXCEPT ![c] = NoProduct]
              /\ UNCHANGED <<cb, mu, now, pc, currentState, err, invoked,
                             result, reported, recommendations>>
         ELSE /\ product' = [product EXCEPT ![c] = getProductDetails(id, up)]
              /\ recommendations' = [recommendations EXCEPT ![c] = NilSlice]
              /\ response' = [response EXCEPT ![c] = NoResponse]
              /\ Lock(c)

\* The closure passed to Execute returns: recommendations is assigned only
\* when getRecommendations returned no error.
HandlerFnReturn(c) ==
  /\ FnReturn(c)
  /\ recommendations' =
       IF err'[c] = nil
         THEN [recommendations EXCEPT ![c] = Slice(Recommended(product[c]))]
         ELSE recommendations
  /\ UNCHANGED <<product, response>>

\* Execute has returned: the handler falls back when it returned an error,
\* reads GetState for its log line and writes the response.
HandlerRespond(c) ==
  /\ Handling(c)
  /\ pc[c] = "idle"
  /\ GetState
  /\ response' = [response EXCEPT ![c] =
                    handlerResponse(product[c], result[c], recommendations[c])]
  /\ UNCHANGED <<product, recommendations>>

\* The gateway clock stops at GatewayMaxTime.
GatewayTick ==
  /\ now < GatewayMaxTime
  /\ Advance(1)

\* Requests handled concurrently, each by its own goroutine.
GatewayNext ==
  \/ \E c \in Callers : HandlerStart(c) /\ UNCHANGED hist
  \/ \E c \in Callers : Handling(c) /\ Check(c) /\ UNCHANGED hist /\ NoRequest
  \/ \E c \in Callers : Handling(c) /\ Invoke(c) /\ UNCHANGED hist /\ NoRequest
  \/ \E c \in Callers : Handling(c) /\ HandlerFnReturn(c) /\ UNCHANGED hist
  \/ \E c \in Callers : Handling(c) /\ Record(c) /\ UNCHANGED hist /\ NoRequest
  \/ \E c \in Callers : HandlerRespond(c) /\ UNCHANGED hist
  \/ GatewayTick /\ UNCHANGED hist /\ NoRequest

GatewaySpec == Init /\ [][GatewayNext]_vars

\* ------------------------------------------------------------- properties
Fails(n) == [i \in 1..n |-> "fail"]
Oks(n) == [i \in 1..n |-> "ok"]
\* The logged calls that invoked the operation, in order.
InvokedCalls(h) == SelectSeq(h, LAMBDA x : x # "refused")
\* Caller c takes the step that leaves program point p.
Leaves(c, p) == pc[c] = p /\ pc'[c] # p

\* C1: from a fresh breaker and with sequential calls, the state is still
\* CLOSED after each of the first maxFailures-1 consecutive failing
\* operations, and OPEN once the maxFailures-th has returned.
C1_TripsAtThreshold ==
  /\ \A k \in 0..(maxFailures - 1) :
       hist = Fails(k) => cb.state = StateClosed
  /\ (AllIdle /\ hist = Fails(maxFailures)) => cb.state = StateOpen

C1_Witness ==
  /\ AllIdle
  /\ hist = Fails(maxFailures)
  /\ cb.state = StateOpen

\* C2: a call whose cooldown check runs while the state is OPEN and less
\* than timeout has elapsed since lastFailureTime returns the circuit-open
\* error at once, without having invoked the operation.
C2_RefusedDuringCooldown ==
  [][\A c \in Callers :
       (/\ Leaves(c, "check")
        /\ cb.state = StateOpen
        /\ now - cb.lastFailureTime < timeout)
       => /\ pc'[c] = "idle"
          /\ result'[c] = CircuitOpenError
          /\ invoked'[c] = 0]_vars

C2_Witness ==
  \E c \in Callers :
    /\ pc[c] = "idle"
    /\ result[c] = CircuitOpenError
    /\ invoked[c] = 0
    /\ cb.state = StateOpen
    /\ now - cb.lastFailureTime < timeout
    /\ now - cb.lastFailureTime > halfOpenTimeout

\* C3: a call whose cooldown check runs while the state is OPEN and more
\* than timeout has elapsed moves the breaker to HALF-OPEN with successCount
\* 0, is not refused, and invokes the operation exactly once before it
\* returns, whatever was refused before.
C3_ProbeInSameCall ==
  [][\A c \in Callers :
       /\ (/\ Leaves(c, "check")
           /\ cb.state = StateOpen
           /\ now - cb.lastFailureTime > timeout)
          => /\ cb'.state = StateHalfOpen
             /\ cb'.successCount = 0
             /\ pc'[c] = "gate"
             /\ currentState'[c] = StateHalfOpen
             /\ invoked'[c] = 0
       /\ (Leaves(c, "gate") /\ currentState[c] = StateHalfOpen)
          => (pc'[c] = "running" /\ invoked'[c] = 1)
       /\ (pc[c] \in {"running", "record"}) => invoked'[c] = 1]_vars

C3_Witness ==
  \E c, d \in Callers :
    /\ pc[c] = "running"
    /\ currentState[c] = StateHalfOpen
    /\ invoked[c] = 1
    /\ cb.state = StateHalfOpen
    /\ pc[d] = "idle"
    /\ result[d] = CircuitOpenError

\* C4: a failure recorded while the state is HALF-OPEN leaves the state
\* OPEN, whatever the counters are.
C4_FailedProbeReopens ==
  [][\A c \in Callers :
       (/\ Leaves(c, "record")
        /\ err[c] # nil
        /\ cb.state = StateHalfOpen)
       => cb'.state = StateOpen]_vars

\* OPEN with a success count left over: a probe failed after one succeeded.
C4_Witness ==
  \E c \in Callers :
    /\ pc[c] = "idle"
    /\ result[c] \in OpErrors
    /\ currentState[c] = StateHalfOpen
    /\ cb.state = StateOpen
    /\ cb.successCount > 0
    /\ cb.lastFailureTime = now

\* C5: with sequential calls, after the trip: fewer than
\* requiredProbeSuccesses successful probes leave the state HALF-OPEN;
\* requiredProbeSuccesses of them close the breaker with both counters 0;
\* requiredProbeSuccesses-1 successes and then a failure leave it OPEN, and
\* the next episode again needs requiredProbeSuccesses successes to close.
C5_ProbesCloseOrReopen ==
  LET h == InvokedCalls(hist)
      Trip == Fails(maxFailures)
      Reopened == Trip \o Oks(requiredProbeSuccesses - 1) \o <<"fail">>
      IsClosedAndReset ==
        /\ cb.state = StateClosed
        /\ cb.failureCount = 0
        /\ cb.successCount = 0
  IN  AllIdle =>
        /\ \A k \in 1..(requiredProbeSuccesses - 1) :
             /\ h = Trip \o Oks(k) => cb.state = StateHalfOpen
             /\ h = Reopened \o Oks(k) => cb.state = StateHalfOpen
        /\ h = Trip \o Oks(requiredProbeSuccesses) => IsClosedAndReset
        /\ h = Reopened => cb.state = StateOpen
        /\ h = Reopened \o Oks(requiredProbeSuccesses) => IsClosedAndReset

C5_Witness ==
  /\ AllIdle
  /\ InvokedCalls(hist) =
       Fails(maxFailures) \o Oks(requiredProbeSuccesses - 1) \o <<"fail">>
         \o Oks(requiredProbeSuccesses)
  /\ cb.state = StateClosed

\* C6: with sequential calls, maxFailures-1 failures, one success and
\* maxFailures-1 failures never trip the breaker: the state is CLOSED after
\* every call of the pattern, and the success leaves failureCount at 0.
C6_SuccessResetsFailures ==
  LET Pattern == Fails(maxFailures - 1) \o <<"ok">> \o Fails(maxFailures - 1)
  IN  \A k \in 1..Len(Pattern) :
        hist = SubSeq(Pattern, 1, k) =>
          /\ cb.state = StateClosed
          /\ (AllIdle /\ k = maxFailures) => cb.failureCount = 0

C6_Witness ==
  /\ AllIdle
  /\ hist = Fails(maxFailures - 1) \o <<"ok">> \o Fails(maxFailures - 1)
  /\ cb.state = StateClosed
  /\ cb.failureCount = maxFailures - 1

\* C7: under every interleaving the state is one of CLOSED, OPEN, HALF-OPEN,
\* and every change of it is CLOSED->OPEN, OPEN->HALF-OPEN, HALF-OPEN->OPEN
\* or HALF-OPEN->CLOSED.
PermittedTransitions ==
  {<<StateClosed, StateOpen>>, <<StateOpen, StateHalfOpen>>,
   <<StateHalfOpen, StateOpen>>, <<StateHalfOpen, StateClosed>>}

C7_PermittedTransitionsOnly ==
  [][/\ cb'.state \in States
     /\ cb'.state # cb.state
          => <<cb.state, cb'.state>> \in PermittedTransitions]_vars

\* A probe admitted in HALF-OPEN succeeded and the breaker has closed again.
C7_Witness ==
  \E c \in Callers :
    /\ pc[c] = "idle"
    /\ currentState[c] = StateHalfOpen
    /\ result[c] = nil
    /\ cb.state = StateClosed
    /\ cb.lastFailureTime > 0

\* C8: a failure of the operation is recorded (lastFailureTime is set) and
\* the operation's own error is what Execute returns; Execute returns nil
\* only after an invocation that returned nil, and the circuit-open error
\* only when the operation was not invoked.
C8_ErrorsPropagate ==
  [][\A c \in Callers :
       /\ (Leaves(c, "record") /\ err[c] # nil)
          => /\ pc'[c] = "idle"
             /\ result'[c] = err[c]
             /\ cb'.lastFailureTime = now
       /\ (pc'[c] = "idle" /\ result'[c] = nil)
          => (invoked'[c] = 1 /\ err'[c] = nil)
       /\ (pc'[c] = "idle" /\ result'[c] = CircuitOpenError)
          => invoked'[c] = 0
       /\ (pc'[c] = "idle" /\ invoked'[c] = 1)
          => result'[c] = err'[c]]_vars

C8_Witness ==
  \E c, d \in Callers :
    /\ pc[c] = "idle"
    /\ invoked[c] = 1
    /\ result[c] \in OpErrors
    /\ pc[d] = "idle"
    /\ invoked[d] = 1
    /\ result[d] \in OpErrors \ {result[c]}

\* C9 (as claimed): three failed calls ending at t leave OPEN; the call at
\* t+5 is refused; the call at t+11 invokes the operation and, failing,
\* leaves OPEN with lastFailureTime t+11; the call at t+21 invokes the
\* operation and, succeeding, leaves HALF-OPEN with successCount 1; the next
\* successful call leaves CLOSED with both counters 0.
ScenarioStart ==
  /\ Len(hist) >= maxFailures
  /\ SubSeq(hist, 1, maxFailures) = Fails(maxFailures)

C9_ScenarioHead ==
  LET n == Len(hist)
  IN  (AllIdle /\ ScenarioStart) =>
        /\ n = 3 => (cb.state = StateOpen /\ cb.lastFailureTime = ScenarioT)
        /\ n >= 4 => hist[4] = "refused"
        /\ n = 4 => \A c \in SeqCallers : invoked[c] = 0
        /\ n >= 5 => hist[5] # "refused"
        /\ (n = 5 /\ hist[5] = "fail")
             => /\ cb.state = StateOpen
                /\ cb.lastFailureTime = ScenarioT + 11

C9_ScenarioAsClaimed ==
  LET n == Len(hist)
  IN  /\ C9_ScenarioHead
      /\ (AllIdle /\ ScenarioStart /\ n >= 6 /\ hist[5] = "fail") =>
           /\ hist[6] # "refused"
           /\ (n = 6 /\ hist[6] = "ok")
                => (cb.state = StateHalfOpen /\ cb.successCount = 1)
           /\ (n = 7 /\ hist[6] = "ok" /\ hist[7] = "ok")
                => /\ cb.state = StateClosed
                   /\ cb.failureCount = 0
                   /\ cb.successCount = 0

\* C9 (amended): as claimed up to the failed call at t+11; the call at t+21
\* is refused, since the 10 s since t+11 do not exceed timeout; the call at
\* t+22 invokes the operation and, succeeding, leaves HALF-OPEN with
\* successCount 1; the next successful call leaves CLOSED, both counters 0.
C9_ScenarioAmended ==
  LET n == Len(hist)
  IN  /\ C9_ScenarioHead
      /\ (AllIdle /\ ScenarioStart /\ n >= 6 /\ hist[5] = "fail") =>
           /\ hist[6] = "refused"
           /\ n = 6 => (cb.state = StateOpen
                        /\ cb.lastFailureTime = ScenarioT + 11)
           /\ n >= 7 => hist[7] # "refused"
           /\ (n = 7 /\ hist[7] = "ok")
                => (cb.state = StateHalfOpen /\ cb.successCount = 1)
           /\ (n = 8 /\ hist[7] = "ok" /\ hist[8] = "ok")
                => /\ cb.state = StateClosed
                   /\ cb.failureCount = 0
                   /\ cb.successCount = 0

C9_Witness ==
  /\ AllIdle
  /\ hist = <<"fail", "fail", "fail", "refused", "fail", "refused", "ok", "ok">>
  /\ now = ScenarioT + 23
  /\ cb.state = StateClosed

\* C10 (as claimed): successCount is 0 whenever the state is not HALF-OPEN.
C10_ZeroOutsideHalfOpen ==
  cb.state # StateHalfOpen => cb.successCount = 0

\* C10 (amended): successCount is reset to 0 on HALF-OPEN->CLOSED and on
\* every entry into HALF-OPEN; HALF-OPEN->OPEN leaves it as it is.  So it is
\* 0 whenever the state is CLOSED, and may be positive while it is OPEN.
C10_ResetOnCloseAndOnEntry ==
  [][/\ cb'.state = StateClosed => cb'.successCount = 0
     /\ (cb.state # StateHalfOpen /\ cb'.state = StateHalfOpen)
          => cb'.successCount = 0
     /\ (cb.state = StateHalfOpen /\ cb'.state = StateOpen)
          => cb'.successCount = cb.successCount]_vars

\* The breaker closed after the second probe of a HALF-OPEN episode.
C10_Witness ==
  \E c \in Callers :
    /\ pc[c] = "idle"
    /\ currentState[c] = StateHalfOpen
    /\ result[c] = nil
    /\ cb.state = StateClosed
    /\ cb.successCount = 0
    /\ cb.failureCount = 0

\* C11: failureCount is 0 right after every recorded success, in any state,
\* and right after every transition into OPEN, from CLOSED and from
\* HALF-OPEN.
C11_FailuresResetOnSuccessAndTrip ==
  [][/\ \A c \in Callers :
          (Leaves(c, "record") /\ err[c] = nil) => cb'.failureCount = 0
     /\ (cb.state # StateOpen /\ cb'.state = StateOpen)
          => cb'.failureCount = 0]_vars

\* OPEN with failureCount 0 after one caller recorded a success and the
\* other a failure.
C11_Witness ==
  \E c, d \in Callers :
    /\ pc[c] = "idle" /\ invoked[c] = 1 /\ result[c] = nil
    /\ pc[d] = "idle" /\ invoked[d] = 1 /\ result[d] \in OpErrors
    /\ cb.state = StateOpen
    /\ cb.failureCount = 0

\* C12: under every interleaving the breaker leaves CLOSED only by a
\* recorded failure that brings failureCount to maxFailures, and then to
\* OPEN; while CLOSED, failureCount is the number of failures recorded since
\* the last recorded success or the last reset (it is 0 on entry to CLOSED,
\* a failure adds one, a success zeroes it, nothing else changes it); and
\* every failure recorded in HALF-OPEN leaves OPEN.
C12_ThresholdAndReopenUnderLock ==
  [][/\ (cb.state = StateClosed /\ cb'.state # StateClosed)
          => /\ cb'.state = StateOpen
             /\ cb.failureCount + 1 = maxFailures
             /\ \E c \in Callers : Leaves(c, "record") /\ err[c] # nil
     /\ (cb.state # StateClosed /\ cb'.state = StateClosed)
          => cb'.failureCount = 0
     /\ (cb.state = StateClosed /\ cb'.state = StateClosed)
          => IF \E c \in Callers : Leaves(c, "record") /\ err[c] # nil
               THEN cb'.failureCount = cb.failureCount + 1
               ELSE IF \E c \in Callers : Leaves(c, "record")
                 THEN cb'.failureCount = 0
                 ELSE cb'.failureCount = cb.failureCount
     /\ \A c \in Callers :
          (Leaves(c, "record") /\ err[c] # nil /\ cb.state = StateHalfOpen)
            => cb'.state = StateOpen]_vars

\* The breaker has tripped while a call admitted in CLOSED is still running.
C12_Witness ==
  \E c, d \in Callers :
    /\ pc[c] = "running"
    /\ currentState[c] = StateClosed
    /\ pc[d] = "idle"
    /\ result[d] \in OpErrors
    /\ cb.state = StateOpen
    /\ cb.lastFailureTime = now

\* C13: no invocation of the operation begins while the state is OPEN.
C13_NoInvocationWhileOpen ==
  [][\A c \in Callers :
       (Leaves(c, "gate") /\ pc'[c] = "running") => cb.state # StateOpen]_vars

\* C14: during a HALF-OPEN episode at most one probe is in flight.
ProbesInFlight ==
  {c \in Callers : pc[c] = "running" /\ currentState[c] = StateHalfOpen}

C14_OneProbeInFlight ==
  cb.state = StateHalfOpen => Cardinality(ProbesInFlight) <= 1

\* C16: lastFailureTime changes only in a step that records a failure, and
\* then to the time of the recording; a recorded success, a refusal, the
\* move to HALF-OPEN and GetState leave it as it is.
C16_LastFailureTimeOnlyOnFailure ==
  [][cb'.lastFailureTime # cb.lastFailureTime
       => /\ \E c \in Callers : Leaves(c, "record") /\ err[c] # nil
          /\ cb'.lastFailureTime = now]_vars

\* After a failure at lastFailureTime: a refusal, the move to HALF-OPEN, two
\* recorded successes and a GetState, and lastFailureTime is still the same.
C16_Witness ==
  \E c, d \in Callers :
    /\ cb.lastFailureTime > 0
    /\ now - cb.lastFailureTime > timeout
    /\ cb.state = StateClosed
    /\ reported = "HALF-OPEN"
    /\ pc[c] = "idle" /\ result[c] = nil /\ currentState[c] = StateHalfOpen
    /\ pc[d] = "idle" /\ result[d] = CircuitOpenError

\* C17: GetState returns the string of the current state and changes
\* nothing else: every step that changes what was reported leaves the
\* breaker, the lock, the clock and every caller as they were.
C17_GetStateHasNoSideEffect ==
  [][reported' # reported
       => /\ reported' = StateString(cb.state)
          /\ UNCHANGED <<cb, mu, now, pc, currentState, err, invoked,
                         result>>]_vars

\* GetState has reported OPEN after the cooldown elapsed, and the state is
\* still OPEN.
C17_Witness ==
  /\ reported = "OPEN"
  /\ cb.state = StateOpen
  /\ now - cb.lastFailureTime > timeout
  /\ mu = 0

\* C18: the lock is held only inside the two critical sections of Execute:
\* never by a caller whose operation is running, who is about to invoke it,
\* or whose Execute has returned.  So while an operation is in flight and
\* no caller is inside a critical section, the lock is free for a refusal
\* or a GetState.
C18_LockOnlyInCriticalSections ==
  /\ mu \in Callers \cup {0}
  /\ \A c \in Callers :
       /\ pc[c] \in {"idle", "gate", "running"} => mu # c
       /\ pc[c] \in {"check", "record"} => mu = c
  /\ (\A c \in Callers : pc[c] \in {"idle", "gate", "running"}) => mu = 0

\* A call was refused while the other caller's probe, admitted in HALF-OPEN
\* before the breaker reopened, is still in flight.
C18_Witness ==
  \E c, d \in Callers :
    /\ pc[c] = "running"
    /\ currentState[c] = StateHalfOpen
    /\ cb.state = StateOpen
    /\ pc[d] = "idle"
    /\ result[d] = CircuitOpenError
    /\ mu = 0

\* C19: an Execute call invokes the operation at most once: exactly once
\* when it returns nil or the operation's error, never when it refuses.
C19_NoRetry ==
  \A c \in Callers :
    /\ invoked[c] \in {0, 1}
    /\ pc[c] \in {"running", "record"} => invoked[c] = 1
    /\ (pc[c] = "idle" /\ result[c] \in OpErrors) => invoked[c] = 1

C19_Witness ==
  \E c \in Callers :
    /\ pc[c] = "idle"
    /\ invoked[c] = 1
    /\ result[c] \in OpErrors
    /\ cb.state = StateClosed
    /\ cb.failureCount = 1

\* C15: when from HealAt on every operation succeeds, time keeps advancing
\* and calls keep being made, the breaker eventually is CLOSED and stays
\* CLOSED.
C15_SelfHealing == <>[](cb.state = StateClosed)

\* After the recovery, the breaker that had tripped is CLOSED again, closed
\* by a probe admitted in HALF-OPEN.
C15_Witness ==
  \E c \in Callers :
    /\ now > HealAt + timeout
    /\ cb.lastFailureTime >= HealAt
    /\ cb.state = StateClosed
    /\ pc[c] = "idle"
    /\ currentState[c] = StateHalfOpen
    /\ result[c] = nil

\* C20: gateway v2 degrades gracefully.  A request whose product lookup
\* succeeded is never answered with an error status; its response carries
\* the product, whatever Execute returned; degraded_mode is true exactly when
\* Execute returned an error (a refusal or the operation's failure), and then
\* recommendations is the empty fallback list; otherwise degraded_mode is
\* false and recommendations is what the recommendations service answered.
C20_GracefulDegradation ==
  \A c \in Callers :
    /\ response[c].status \in {400, 500} => product[c] = NoProduct
    /\ response[c].status \notin {0, 400, 500} =>
         /\ response[c].status = 200
         /\ product[c] \in Products
         /\ response[c].product = product[c]
         /\ result[c] # NoResult
         /\ response[c].degradedMode = (result[c] # nil)
         /\ result[c] # nil =>
              response[c].recommendations = getFallbackRecommendations
         /\ result[c] = nil =>
              response[c].recommendations = Slice(Recommended(product[c]))

\* A request refused by the open breaker and one whose recommendations call
\* failed have both been answered in degraded mode, with the product.
C20_Witness ==
  \E c, d \in Callers :
    /\ response[c].status = 200 /\ response[d].status = 200
    /\ response[c].degradedMode /\ response[d].degradedMode
    /\ result[c] = CircuitOpenError /\ invoked[c] = 0
    /\ result[d] \in OpErrors
    /\ response[c].product \in Products

\* C21: successCount counts only successes of probes.  A success that is
\* counted (recorded while the state is HALF-OPEN, so that it increments
\* successCount or closes the circuit) belongs to a call that was admitted
\* in HALF-OPEN; the success of a call admitted while the breaker was CLOSED
\* is never counted.
C21_OnlyProbeSuccessesCount ==
  [][\A c \in Callers :
       (/\ Leaves(c, "record")
        /\ err[c] = nil
        /\ cb.state = StateHalfOpen)
       => currentState[c] = StateHalfOpen]_vars

\* C22: a refused Execute call changes nothing.  Neither its entry nor the
\* step in which it returns the circuit-open error changes state,
\* failureCount, successCount or lastFailureTime, and it invokes nothing.
C22_RefusalChangesNothing ==
  [][\A c \in Callers :
       /\ Leaves(c, "idle") => cb' = cb
       /\ (Leaves(c, "check") /\ pc'[c] = "idle")
          => /\ cb' = cb
             /\ cb.state = StateOpen
             /\ result'[c] = CircuitOpenError
             /\ invoked'[c] = 0]_vars

\* A call has been refused some seconds into the cooldown, and the breaker
\* still holds the time of the failure and the count of the failed episode.
C22_Witness ==
  \E c \in Callers :
    /\ pc[c] = "idle"
    /\ result[c] = CircuitOpenError
    /\ cb.state = StateOpen
    /\ cb.successCount = 1
    /\ cb.lastFailureTime > timeout
    /\ now > cb.lastFailureTime
    /\ \A d \in Callers : pc[d] = "idle"

\* C23: the breaker changes state only inside Execute.  A step in which the
\* clock advances changes no field of the breaker; the state changes only in
\* a step of one of Execute's two critical sections; and whatever happens
\* outside Execute while the state is OPEN with the cooldown elapsed
\* (time passing, GetState) leaves the state OPEN, GetState reporting OPEN.
C23_StateChangesOnlyInExecute ==
  [][/\ now' # now => cb' = cb
     /\ cb'.state # cb.state =>
          \E c \in Callers : Leaves(c, "check") \/ Leaves(c, "record")
     /\ (/\ cb.state = StateOpen
         /\ cooldownElapsed(cb, now)
         /\ \A c \in Callers : ~Leaves(c, "check"))
        => /\ cb'.state = StateOpen
           /\ reported' # reported => reported' = StateString(StateOpen)]_vars

\* The cooldown elapsed seconds ago, no call has arrived since, and the
\* breaker is still OPEN and was reported so.
C23_Witness ==
  /\ cb.state = StateOpen
  /\ now - cb.lastFailureTime > timeout + halfOpenTimeout
  /\ reported = StateString(StateOpen)
  /\ mu = 0
  /\ \A c \in Callers : pc[c] = "idle"

\* C24: the cooldown comparison is strict.  A call whose cooldown check runs
\* while the state is OPEN exactly timeout after lastFailureTime is refused
\* with the circuit-open error, invokes nothing and leaves the breaker OPEN;
\* a call is let through from OPEN only when more than timeout has elapsed.
C24_StrictCooldown ==
  [][\A c \in Callers :
       /\ (/\ Leaves(c, "check")
           /\ cb.state = StateOpen
           /\ now - cb.lastFailureTime = timeout)
          => /\ pc'[c] = "idle"
             /\ result'[c] = CircuitOpenError
             /\ invoked'[c] = 0
             /\ cb'.state = StateOpen
       /\ (/\ Leaves(c, "check")
           /\ cb.state = StateOpen
           /\ pc'[c] = "gate")
          => now - cb.lastFailureTime > timeout]_vars

\* A call has been refused and the clock reads exactly lastFailureTime plus
\* timeout.
C24_Witness ==
  \E c \in Callers :
    /\ pc[c] = "idle"
    /\ result[c] = CircuitOpenError
    /\ invoked[c] = 0
    /\ cb.state = StateOpen
    /\ now - cb.lastFailureTime = timeout

\* C25: a failure recorded while the state is already OPEN (the outcome of
\* an operation admitted earlier) leaves the state OPEN and sets
\* lastFailureTime to the time of recording, which restarts the cooldown:
\* the breaker leaves OPEN for HALF-OPEN only when more than timeout has
\* elapsed since that latest recorded failure.
C25_LateFailureRestartsCooldown ==
  [][/\ \A c \in Callers :
          (Leaves(c, "record") /\ err[c] # nil /\ cb.state = StateOpen)
          => /\ cb'.state = StateOpen
             /\ cb'.lastFailureTime = now
             /\ ~cooldownElapsed(cb', now')
     /\ (cb.state = StateOpen /\ cb'.state # StateOpen)
        => /\ cb'.state = StateHalfOpen
           /\ now - cb.lastFailureTime > timeout]_vars

\* A failure was recorded in OPEN after the trip (failureCount is 0 when the
\* breaker opens), and a call made after the cooldown of the trip would
\* have elapsed was still refused.
C25_Witness ==
  \E c \in Callers :
    /\ cb.state = StateOpen
    /\ cb.failureCount = 1
    /\ cb.lastFailureTime > 0
    /\ now > timeout
    /\ now - cb.lastFailureTime <= timeout
    /\ pc[c] = "idle"
    /\ result[c] = CircuitOpenError
    /\ \A d \in Callers : pc[d] = "idle"

\* C26: counter bounds.  In every reachable state in which no caller is
\* inside a critical section, 0 <= failureCount < maxFailures and
\* 0 <= successCount < requiredProbeSuccesses.
C26_CounterBounds ==
  mu = 0 =>
    /\ 0 <= cb.failureCount /\ cb.failureCount < maxFailures
    /\ 0 <= cb.successCount /\ cb.successCount < requiredProbeSuccesses

\* Both counters are above 0 with the lock free: a probe succeeded, a probe
\* failed, and the failure of another call was recorded after the reopening.
C26_Witness ==
  /\ mu = 0
  /\ cb.state = StateOpen
  /\ cb.failureCount > 0
  /\ cb.successCount = requiredProbeSuccesses - 1
====
